---------------------------- MODULE Spec2Model ----------------------------
(***************************************************************************)
(* Model of the schedule risk engine (app/services/risk_engine.py) and of  *)
(* the validate endpoint that drives it (app/main.py).                     *)
(*                                                                         *)
(* An engine holds an optional directed graph and an activity index.       *)
(* build_graph fills both from a schedule; validate_schedule_integrity and *)
(* find_critical_path read them and return a value.  The graph follows     *)
(* networkx.DiGraph: nodes and the successors of a node are kept in        *)
(* insertion order, and add_node / add_edge of an existing node / edge     *)
(* keep its position.                                                      *)
(***************************************************************************)
EXTENDS Integers, Sequences, FiniteSets, TLC

(***************************************************************************)
(* Bounds of the model.                                                    *)
(***************************************************************************)
\* largest number of activity records in a generated schedule
MaxActs == 3
\* largest size of a generated schedule: its activity records plus the
\* predecessor references among them
MaxSize == 6

\* identifiers handed to the generated activities, in input order
\* the largest number of activities of a schedule without chains of dependencies
MaxFan == 10

\* the number of requests to the API that may be under way at once
MaxRequests == 2

\* the largest number of activities of a schedule in which every activity
\* depends on all the activities before it
MaxDense == 8

IdPool == <<"A", "B", "C", "D", "E", "F", "G", "H", "I", "J", "K", "L">>
\* an identifier no generated activity carries
UnknownId == "X"
\* planned durations (models.py: duration_days is an int >= 0)
Durations == {0, 1, 2}

(***************************************************************************)
(* Python values.                                                          *)
(***************************************************************************)
\* Optional[T]: None is the empty sequence, a value v is <<v>>
None == <<>>
Some(v) == <<v>>

\* sum(s) of integers, by halves
RECURSIVE SumSeq(_)
SumSeq(s) ==
    IF s = <<>> THEN 0
    ELSE IF Len(s) = 1 THEN s[1]
    ELSE LET half == Len(s) \div 2
         IN SumSeq(SubSeq(s, 1, half)) + SumSeq(SubSeq(s, half + 1, Len(s)))

Range(s) == {s[i] : i \in DOMAIN s}

(***************************************************************************)
(* models.py                                                               *)
(***************************************************************************)
\* ActivityStatus.NOT_STARTED, the default of ScheduleActivity.status
NOT_STARTED == "not_started"
DELAYED == "delayed"

\* RiskLevel
LOW == "low"
MEDIUM == "medium"
HIGH == "high"
CRITICAL == "critical"

\* ScheduleActivity; successors defaults to the empty list
ScheduleActivity(id, name, duration_days, predecessors, trade, status) ==
    [id |-> id, name |-> name, duration_days |-> duration_days,
     predecessors |-> predecessors, successors |-> <<>>,
     trade |-> trade, status |-> status]

\* an activity that declares successors as well
WithSuccessors(activity, successors) ==
    [activity EXCEPT !.successors = successors]

\* CriticalPathInfo; bottleneck_activity defaults to None
CriticalPathInfo(path, total, bottleneck, risk) ==
    [path_activities |-> path, total_duration_days |-> total,
     bottleneck_activity |-> bottleneck, path_risk_level |-> risk]

(***************************************************************************)
(* networkx.DiGraph as build_graph and the analyses use it.                *)
(*   node : the node identifiers in insertion order (G.nodes)              *)
(*   attr : node -> its attribute record (G.nodes[n])                      *)
(*   adj  : node -> its successors in insertion order (G.adj[n])           *)
(***************************************************************************)
EmptyDiGraph == [node |-> <<>>, attr |-> <<>>, adj |-> <<>>]

NodeSet(G) == Range(G.node)

\* v is among the successors of node u
HasEdge(G, u, v) ==
    u \in DOMAIN G.adj /\ \E i \in DOMAIN G.adj[u] : G.adj[u][i] = v

EdgeSet(G) == {e \in NodeSet(G) \X NodeSet(G) : HasEdge(G, e[1], e[2])}

\* G.add_node(id, **attrs): a new node is appended, an existing node keeps its
\* place and has its attributes updated
AddNode(G, id, attrs) ==
    IF id \in DOMAIN G.attr
    THEN [G EXCEPT !.attr[id] = attrs]
    ELSE [node |-> Append(G.node, id),
          attr |-> (id :> attrs) @@ G.attr,
          adj |-> (id :> <<>>) @@ G.adj]

\* G.add_edge(u, v) between two existing nodes: a new edge is appended to the
\* successors of u, an existing edge is left where it is
AddEdge(G, u, v) ==
    IF v \in Range(G.adj[u])
    THEN G
    ELSE [G EXCEPT !.adj[u] = Append(@, v)]

\* position of a node in G.nodes
NodePos(G, n) == CHOOSE i \in DOMAIN G.node : G.node[i] = n

InDegree(G, n) == Cardinality({u \in NodeSet(G) : HasEdge(G, u, n)})
OutDegree(G, n) == Len(G.adj[n])


(***************************************************************************)
(* RiskEngine.build_graph                                                  *)
(***************************************************************************)
\* the default label of a node whose activity has no trade
GeneralTrade == "general"

\* activity.trade or "general": None and the empty string are both falsy
TradeOrGeneral(trade) ==
    IF trade = None \/ trade = Some("") THEN GeneralTrade ELSE trade[1]

\* the keyword arguments of G.add_node
NodeAttrs(activity) ==
    [name |-> activity.name, duration |-> activity.duration_days,
     trade |-> TradeOrGeneral(activity.trade), status |-> activity.status]

\* {a.id: a for a in schedule.activities}: a later record of the same id
\* replaces the earlier one
ActivityIndex(acts) ==
    [id \in {acts[i].id : i \in DOMAIN acts} |->
        LET last == CHOOSE i \in DOMAIN acts :
                       /\ acts[i].id = id
                       /\ \A j \in DOMAIN acts : acts[j].id = id => j <= i
        IN acts[last]]

\* for activity in schedule.activities: G.add_node(...), the first half of
\* the records and then the second
RECURSIVE AddNodes(_, _)
AddNodes(G, acts) ==
    IF acts = <<>> THEN G
    ELSE IF Len(acts) = 1 THEN AddNode(G, acts[1].id, NodeAttrs(acts[1]))
    ELSE LET half == Len(acts) \div 2
             first == AddNodes(G, SubSeq(acts, 1, half))
         IN IF first.node = <<>> THEN first
            ELSE AddNodes(first, SubSeq(acts, half + 1, Len(acts)))

\* AddPredecessorEdges that leaves out a reference of an activity to itself
RECURSIVE AddPredecessorEdgesNoSelf(_, _, _, _)
AddPredecessorEdgesNoSelf(G, index, preds, id) ==
    IF preds = <<>> THEN G
    ELSE AddPredecessorEdgesNoSelf(
            IF Head(preds) \in DOMAIN index /\ Head(preds) # id
            THEN AddEdge(G, Head(preds), id) ELSE G,
            index, Tail(preds), id)

\* for pred_id in activity.predecessors: if pred_id in self.activities: add_edge
RECURSIVE AddPredecessorEdges(_, _, _, _)
AddPredecessorEdges(G, index, preds, id) ==
    IF preds = <<>> THEN G
    ELSE AddPredecessorEdges(
            IF Head(preds) \in DOMAIN index THEN AddEdge(G, Head(preds), id) ELSE G,
            index, Tail(preds), id)

\* for activity in schedule.activities: (the loop above), the first half of
\* the records and then the second
RECURSIVE AddEdges(_, _, _)
AddEdges(G, index, acts) ==
    IF acts = <<>> THEN G
    ELSE IF Len(acts) = 1
    THEN AddPredecessorEdges(G, index, acts[1].predecessors, acts[1].id)
    ELSE LET half == Len(acts) \div 2
             first == AddEdges(G, index, SubSeq(acts, 1, half))
         IN IF first.node = <<>> THEN first
            ELSE AddEdges(first, index, SubSeq(acts, half + 1, Len(acts)))

\* the graph build_graph assigns to self.graph
build_graph(sched) ==
    AddEdges(AddNodes(EmptyDiGraph, sched.activities),
             ActivityIndex(sched.activities), sched.activities)

(***************************************************************************)
(* networkx.all_simple_paths(G, source, target), as the loop of            *)
(* find_critical_path consumes it.  The generator keeps a stack of edge    *)
(* iterators and the path under exploration (an ordered dict that starts   *)
(* with a dummy key); each resumption runs its while-loop once.  The       *)
(* walk is bootstrapped with a dummy edge into the source, so the          *)
(* one-node path from a node to itself is yielded (the repository's test   *)
(* of a single-activity schedule relies on it).                            *)
(***************************************************************************)
\* the dummy key that current_path starts with
NoneKey == "None"

\* an iterator over the out-edges of node, about to return its pos-th edge
EdgeIter(node, pos) == [node |-> node, pos |-> pos]

\* current_path = {None: None}; stack = [iter([(None, source)])]
NewWalk == [stack |-> <<EdgeIter(NoneKey, 1)>>, current_path |-> <<NoneKey>>]

\* the heads of the edges an iterator runs over: G.edges(node), or the dummy
\* edge into the source
IterTargets(G, source, it) ==
    IF it.node = NoneKey THEN <<source>> ELSE G.adj[it.node]

\* next((e for e in stack[-1] if e[1] not in current_path), None): the
\* position of that edge, 0 when the iterator runs out
NextEdgePos(G, source, walk) ==
    LET it == walk.stack[Len(walk.stack)]
        tg == IterTargets(G, source, it)
        free == {j \in it.pos..Len(tg) : tg[j] \notin Range(walk.current_path)}
    IN IF free = {} THEN 0 ELSE CHOOSE j \in free : \A k \in free : j <= k

\* len(G) - 1, the default cutoff
Cutoff(G) == Len(G.node) - 1

\* WalkStep with an edge iterator that is looked at but never advanced
WalkStepNoAdvance(G, source, target, walk) ==
    LET n == Len(walk.stack)
        it == walk.stack[n]
        j == NextEdgePos(G, source, walk)
        next_node == IterTargets(G, source, it)[j]
        advanced == walk.stack
    IN IF j = 0
       THEN [walk |-> [stack |-> SubSeq(walk.stack, 1, n - 1),
                       current_path |-> SubSeq(walk.current_path, 1,
                                               Len(walk.current_path) - 1)],
             yielded |-> None]
       ELSE [walk |->
                IF /\ Len(walk.current_path) - 1 < Cutoff(G)
                   /\ ({target} \ Range(walk.current_path)) \ {next_node} # {}
                THEN [stack |-> Append(advanced, EdgeIter(next_node, 1)),
                      current_path |-> Append(walk.current_path, next_node)]
                ELSE [stack |-> advanced, current_path |-> walk.current_path],
             yielded |->
                IF next_node = target
                THEN Some(Append(Tail(walk.current_path), next_node))
                ELSE None]

\* one run of the while-loop body: [walk |-> the generator's state after it,
\* yielded |-> None or Some(the path handed to the caller)]
WalkStep(G, source, target, walk) ==
    LET n == Len(walk.stack)
        it == walk.stack[n]
        j == NextEdgePos(G, source, walk)
        next_node == IterTargets(G, source, it)[j]
        advanced == [walk.stack EXCEPT ![n] = EdgeIter(it.node, j + 1)]
    IN IF j = 0
       THEN [walk |-> [stack |-> SubSeq(walk.stack, 1, n - 1),
                       current_path |-> SubSeq(walk.current_path, 1,
                                               Len(walk.current_path) - 1)],
             yielded |-> None]
       ELSE [walk |->
                IF /\ Len(walk.current_path) - 1 < Cutoff(G)
                   /\ ({target} \ Range(walk.current_path)) \ {next_node} # {}
                THEN [stack |-> Append(advanced, EdgeIter(next_node, 1)),
                      current_path |-> Append(walk.current_path, next_node)]
                ELSE [stack |-> advanced, current_path |-> walk.current_path],
             yielded |->
                IF next_node = target
                THEN Some(Append(Tail(walk.current_path), next_node))
                ELSE None]

(***************************************************************************)
(* RiskEngine.find_critical_path                                           *)
(***************************************************************************)
\* [n for n in self.graph.nodes if self.graph.in_degree(n) == 0]
Sources(G) == LET isSource(n) == InDegree(G, n) = 0 IN SelectSeq(G.node, isSource)

\* [n for n in self.graph.nodes if self.graph.out_degree(n) == 0]
Sinks(G) == LET isSink(n) == OutDegree(G, n) = 0 IN SelectSeq(G.node, isSink)

\* sum(self.activities[a].duration_days for a in path if a in self.activities)
PathDuration(index, path) ==
    LET known(a) == a \in DOMAIN index
        kept == SelectSeq(path, known)
    IN SumSeq([k \in 1..Len(kept) |-> index[kept[k]].duration_days])

\* the thresholds of _assess_path_risk
CriticalDays == 365
HighDays == 180
MediumDays == 90

\* AssessPathRisk whose thresholds belong to the higher level
AssessPathRiskInclusive(index, path) ==
    IF path = <<>> THEN LOW
    ELSE LET total_duration == PathDuration(index, path)
         IN IF total_duration >= CriticalDays THEN CRITICAL
            ELSE IF total_duration >= HighDays THEN HIGH
            ELSE IF total_duration >= MediumDays THEN MEDIUM
            ELSE LOW

\* RiskEngine._assess_path_risk
AssessPathRisk(index, path) ==
    IF path = <<>> THEN LOW
    ELSE LET total_duration == PathDuration(index, path)
         IN IF total_duration > CriticalDays THEN CRITICAL
            ELSE IF total_duration > HighDays THEN HIGH
            ELSE IF total_duration > MediumDays THEN MEDIUM
            ELSE LOW

\* the frame of find_critical_path on entry to its source/sink loops
\*   pc     : "entry" before the early returns, "loops" in the nested loops,
\*            "return" after them
\*   sources, sinks : the two lists computed before the early returns
\*   si, ti : positions of the current source and sink
\*   walk   : the generator of all_simple_paths for that pair
LoopEntry(G) ==
    [pc |-> "loops", sources |-> Sources(G), sinks |-> Sinks(G),
     si |-> 1, ti |-> 1, walk |-> NewWalk,
     longest_path |-> <<>>, longest_duration |-> 0]

\* the frame of a call that has not yet passed the early returns
CallEntry ==
    [pc |-> "entry", sources |-> <<>>, sinks |-> <<>>,
     si |-> 1, ti |-> 1, walk |-> NewWalk,
     longest_path |-> <<>>, longest_duration |-> 0]

\* ConsiderPath without its comparison: every yielded path replaces the last
ConsiderPathNoCompare(index, frame, path) ==
    [frame EXCEPT !.longest_duration = PathDuration(index, path), !.longest_path = path]

\* the body of "for path in nx.all_simple_paths(...)" run on a yielded path
ConsiderPath(index, frame, path) ==
    LET duration == PathDuration(index, path)
    IN IF duration > frame.longest_duration
       THEN [frame EXCEPT !.longest_duration = duration, !.longest_path = path]
       ELSE frame

\* one step of the nested loops: resume the generator of the current pair, or,
\* once it is exhausted, move to the next sink, the next source, or leave
LoopStep(G, index, frame) ==
    IF frame.walk.stack = <<>>
    THEN IF frame.ti < Len(frame.sinks)
         THEN [frame EXCEPT !.ti = frame.ti + 1, !.walk = NewWalk]
         ELSE IF frame.si < Len(frame.sources)
         THEN [frame EXCEPT !.si = frame.si + 1, !.ti = 1, !.walk = NewWalk]
         ELSE [frame EXCEPT !.pc = "return"]
    ELSE LET r == WalkStep(G, frame.sources[frame.si], frame.sinks[frame.ti],
                           frame.walk)
             moved == [frame EXCEPT !.walk = r.walk]
         IN IF r.yielded = None THEN moved
            ELSE ConsiderPath(index, moved, r.yielded[1])

\* the loops run for 2^m steps, or to their end if that comes earlier
RECURSIVE RunSteps(_, _, _, _)
RunSteps(G, index, frame, m) ==
    IF frame.pc = "return" THEN frame
    ELSE IF m = 0 THEN LoopStep(G, index, frame)
    ELSE LET first == RunSteps(G, index, frame, m - 1)
         IN IF first.pc = "return" THEN first
            ELSE RunSteps(G, index, first, m - 1)

\* the loops run to their end, for 2^m steps and then for twice as many
RECURSIVE RunFrom(_, _, _, _)
RunFrom(G, index, frame, m) ==
    LET after == RunSteps(G, index, frame, m)
    IN IF after.pc = "return" THEN after ELSE RunFrom(G, index, after, m + 1)

\* the loops run to their end
RunLoops(G, index, frame) == RunFrom(G, index, frame, 0)

\* the bottleneck loop over longest_path: [bottleneck, max_duration] after it
RECURSIVE Bottleneck(_, _, _, _)
Bottleneck(index, path, bottleneck, max_duration) ==
    IF path = <<>> THEN bottleneck
    ELSE LET activity_id == Head(path)
             d == index[activity_id].duration_days
         IN IF activity_id \in DOMAIN index /\ d > max_duration
            THEN Bottleneck(index, Tail(path), Some(activity_id), d)
            ELSE Bottleneck(index, Tail(path), bottleneck, max_duration)

\* "not self.graph": None, and also a DiGraph of no nodes (its len() is 0)
NotGraph(g) == g = None \/ Len(g[1].node) = 0

\* EarlyReturn that takes only None for "no graph"
EarlyReturnOnNoneOnly(g, index) ==
    IF g = None
    THEN Some(CriticalPathInfo(<<>>, 0, None, LOW))
    ELSE IF Sources(g[1]) = <<>> \/ Sinks(g[1]) = <<>>
    THEN Some(CriticalPathInfo(g[1].node, PathDuration(index, g[1].node), None, MEDIUM))
    ELSE None

\* EarlyReturn whose fallback assesses the risk of the nodes as of a path
EarlyReturnAssessed(g, index) ==
    IF NotGraph(g) \/ Len(g[1].node) = 0
    THEN Some(CriticalPathInfo(<<>>, 0, None, LOW))
    ELSE IF Sources(g[1]) = <<>> \/ Sinks(g[1]) = <<>>
    THEN Some(CriticalPathInfo(g[1].node, PathDuration(index, g[1].node), None,
                               AssessPathRisk(index, g[1].node)))
    ELSE None

\* the early returns of find_critical_path: None when the loops are entered
EarlyReturn(g, index) ==
    IF NotGraph(g) \/ Len(g[1].node) = 0
    THEN Some(CriticalPathInfo(<<>>, 0, None, LOW))
    ELSE IF Sources(g[1]) = <<>> \/ Sinks(g[1]) = <<>>
    THEN Some(CriticalPathInfo(g[1].node, PathDuration(index, g[1].node), None, MEDIUM))
    ELSE None

\* LoopReturn that takes the bottleneck as max(longest_path, key=...), which
\* raises ValueError when no path was recorded
LoopReturnByMax(index, frame) ==
    IF frame.longest_path = <<>>
    THEN [raised |-> "ValueError"]
    ELSE CriticalPathInfo(frame.longest_path, frame.longest_duration,
                          Bottleneck(index, frame.longest_path, None, 0),
                          AssessPathRisk(index, frame.longest_path))

\* what find_critical_path returns after its loops
LoopReturn(index, frame) ==
    CriticalPathInfo(frame.longest_path, frame.longest_duration,
                     Bottleneck(index, frame.longest_path, None, 0),
                     AssessPathRisk(index, frame.longest_path))

\* find_critical_path as a whole
find_critical_path(g, index) ==
    IF EarlyReturn(g, index) # None THEN EarlyReturn(g, index)[1]
    ELSE LoopReturn(index, RunLoops(g[1], index, LoopEntry(g[1])))

(***************************************************************************)
(* Python floats of the risk scores, kept exact: a non-negative float is   *)
(* the pair <<numerator, denominator>> in lowest terms.                    *)
(***************************************************************************)
\* a list whose elements have been computed: the sequence s, element by element
List(s) == s \o <<>>

RECURSIVE Gcd(_, _)
Gcd(a, b) == IF b = 0 THEN a ELSE Gcd(b, a % b)

Float(num, den) ==
    LET g == Gcd(num, den) IN <<num \div g, den \div g>>

FloatZero == Float(0, 1)
FloatAdd(x, y) == Float(x[1] * y[2] + y[1] * x[2], x[2] * y[2])
FloatMul(x, y) == Float(x[1] * y[1], x[2] * y[2])
FloatLess(x, y) == x[1] * y[2] < y[1] * x[2]

\* min(x, y): y only if it is smaller
FloatMin(x, y) == IF FloatLess(y, x) THEN y ELSE x

\* the sum of s, by halves: the values are exact, so the order in which they
\* are added does not change the sum
RECURSIVE FloatSum(_)
FloatSum(s) ==
    IF s = <<>> THEN FloatZero
    ELSE IF Len(s) = 1 THEN s[1]
    ELSE LET half == Len(s) \div 2
         IN FloatAdd(FloatSum(SubSeq(s, 1, half)),
                     FloatSum(SubSeq(s, half + 1, Len(s))))

(***************************************************************************)
(* nx.betweenness_centrality(G): for every source a breadth-first search   *)
(* that counts shortest paths, the accumulation of the dependencies along  *)
(* them, and the rescaling by 1 / ((n - 1)(n - 2)).                        *)
(***************************************************************************)
\* the mark of a node the search has not reached
Unreached == -1

\* the search from the nodes at distance k: D the distances, sigma the number
\* of shortest paths from the source, both by the position of the node
RECURSIVE ShortestPathBasic(_, _, _, _)
ShortestPathBasic(G, k, D, sigma) ==
    LET n == Len(G.node)
        frontier == {i \in 1..n : D[i] = k}
        next == {j \in 1..n :
                    /\ D[j] = Unreached
                    /\ \E i \in frontier : HasEdge(G, G.node[i], G.node[j])}
        through(j) ==
            SumSeq([i \in 1..n |->
                       IF i \in frontier /\ HasEdge(G, G.node[i], G.node[j])
                       THEN sigma[i] ELSE 0])
    IN IF next = {} THEN [D |-> D, sigma |-> sigma]
       ELSE ShortestPathBasic(G, k + 1,
                List([j \in 1..n |-> IF j \in next THEN k + 1 ELSE D[j]]),
                List([j \in 1..n |-> IF j \in next THEN through(j) ELSE sigma[j]]))

\* the search from the node at position s
ShortestPathsFrom(G, s) ==
    ShortestPathBasic(G, 0,
        List([j \in 1..Len(G.node) |-> IF j = s THEN 0 ELSE Unreached]),
        List([j \in 1..Len(G.node) |-> IF j = s THEN 1 ELSE 0]))

\* delta[v] of the accumulation: over the nodes w that v precedes on a
\* shortest path, sigma[v] / sigma[w] * (1 + delta[w]); v and w are positions
RECURSIVE Dependency(_, _, _)
Dependency(G, sp, v) ==
    IF sp.D[v] = Unreached THEN FloatZero
    ELSE FloatSum([w \in 1..Len(G.node) |->
            IF /\ sp.D[w] = sp.D[v] + 1
               /\ HasEdge(G, G.node[v], G.node[w])
            THEN FloatMul(Float(sp.sigma[v], sp.sigma[w]),
                          FloatAdd(Float(1, 1), Dependency(G, sp, w)))
            ELSE FloatZero])

\* the searches run once each, from the nodes in their order
BetweennessCentrality(G) ==
    LET n == Len(G.node)
        sp == List([s \in 1..n |-> ShortestPathsFrom(G, s)])
        raw(v) == FloatSum([s \in 1..n |->
                      IF s = v THEN FloatZero ELSE Dependency(G, sp[s], v)])
        betweenness ==
            List([v \in 1..n |->
                     IF n <= 2 THEN raw(v)
                     ELSE FloatMul(raw(v), Float(1, (n - 1) * (n - 2)))])
    IN [node \in NodeSet(G) |-> betweenness[NodePos(G, node)]]

(***************************************************************************)
(* RiskEngine.find_high_risk_activities                                    *)
(***************************************************************************)
OutDegreeWeight == Float(3, 10)
DurationWeight == Float(4, 10)
CentralityWeight == Float(3, 10)
DurationUnitDays == 30
DurationCap == Float(2, 1)
CentralityMaxNodes == 500
TopShare == 5

\* RiskScore that still adds the centrality at CentralityMaxNodes nodes
RiskScoreInclusive(G, index, centrality, node) ==
    LET fan_out == FloatAdd(FloatZero,
                       FloatMul(Float(OutDegree(G, node), 1), OutDegreeWeight))
        exposure ==
            IF node \in DOMAIN index
            THEN FloatAdd(fan_out,
                     FloatMul(FloatMin(Float(index[node].duration_days, DurationUnitDays),
                                       DurationCap),
                              DurationWeight))
            ELSE fan_out
    IN IF Len(G.node) <= CentralityMaxNodes
       THEN FloatAdd(exposure, FloatMul(centrality[node], CentralityWeight))
       ELSE exposure

\* the score of one node, the three terms added in the order of the code
RiskScore(G, index, centrality, node) ==
    LET fan_out == FloatAdd(FloatZero,
                       FloatMul(Float(OutDegree(G, node), 1), OutDegreeWeight))
        exposure ==
            IF node \in DOMAIN index
            THEN FloatAdd(fan_out,
                     FloatMul(FloatMin(Float(index[node].duration_days, DurationUnitDays),
                                       DurationCap),
                              DurationWeight))
            ELSE fan_out
    IN IF Len(G.node) < CentralityMaxNodes
       THEN FloatAdd(exposure, FloatMul(centrality[node], CentralityWeight))
       ELSE exposure

\* risk_scores.items(): the nodes in insertion order, each with its score
RiskScores(G, index) ==
    LET centrality == BetweennessCentrality(G)
    IN List([i \in 1..Len(G.node) |->
           [id |-> G.node[i], score |-> RiskScore(G, index, centrality, G.node[i])]])

\* InsertDescending that puts an item before the items of equal score
InsertBeforeEqual(sorted, item) ==
    LET k == Cardinality({i \in DOMAIN sorted : FloatLess(item.score, sorted[i].score)})
    IN SubSeq(sorted, 1, k) \o <<item>> \o SubSeq(sorted, k + 1, Len(sorted))

\* one more item into a list sorted by descending score: after every item
\* whose score is not smaller
InsertDescending(sorted, item) ==
    LET k == Cardinality({i \in DOMAIN sorted : ~FloatLess(sorted[i].score, item.score)})
    IN SubSeq(sorted, 1, k) \o <<item>> \o SubSeq(sorted, k + 1, Len(sorted))

\* the items inserted one after the other into a sorted list, the first half
\* and then the second
RECURSIVE InsertAll(_, _)
InsertAll(sorted, items) ==
    IF items = <<>> THEN sorted
    ELSE IF Len(items) = 1 THEN InsertDescending(sorted, items[1])
    ELSE LET half == Len(items) \div 2
             first == InsertAll(sorted, SubSeq(items, 1, half))
         IN IF first = <<>> THEN first
            ELSE InsertAll(first, SubSeq(items, half + 1, Len(items)))

\* sorted(items, key=score, reverse=True), a stable sort
SortedDescending(items) == InsertAll(<<>>, items)

\* max(1, len(sorted_activities) // 5)
TopCount(n) == IF n \div TopShare >= 1 THEN n \div TopShare ELSE 1

find_high_risk_activities(g, index) ==
    IF NotGraph(g) THEN <<>>
    ELSE LET sorted_activities == SortedDescending(RiskScores(g[1], index))
             top_count == TopCount(Len(sorted_activities))
         IN [k \in 1..top_count |-> sorted_activities[k].id]

(***************************************************************************)
(* The networkx functions validate_schedule_integrity calls.               *)
(***************************************************************************)
\* nx.is_directed_acyclic_graph: a topological sort (Kahn) consumes every node.
\* rest is the set of nodes not yet emitted.
RECURSIVE TopologicalSortEnds(_, _)
TopologicalSortEnds(G, rest) ==
    LET zero_indegree == {n \in rest : \A u \in rest : ~HasEdge(G, u, n)}
    IN IF rest = {} THEN TRUE
       ELSE IF zero_indegree = {} THEN FALSE
       ELSE TopologicalSortEnds(G, rest \ zero_indegree)

IsDirectedAcyclicGraph(G) == TopologicalSortEnds(G, NodeSet(G))

\* the cycles through root that, apart from root, use only nodes after root:
\* the search extends path (which starts at root) along every out-edge
RECURSIVE CyclesThrough(_, _, _)
CyclesThrough(G, root, path) ==
    LET last == path[Len(path)]
        closing == IF HasEdge(G, last, root) /\ Len(path) >= 2 THEN {path} ELSE {}
        onward == {v \in Range(G.adj[last]) :
                      /\ NodePos(G, v) > NodePos(G, root)
                      /\ v \notin Range(path)}
    IN closing \cup UNION {CyclesThrough(G, root, Append(path, v)) : v \in onward}

\* SimpleCycles that overlooks the self-loops
SimpleCyclesNoSelfLoops(G) ==
    UNION {CyclesThrough(G, n, <<n>>) : n \in NodeSet(G)}

\* list(nx.simple_cycles(G)): the self-loops, then every longer elementary
\* cycle once, found from its first node
SimpleCycles(G) ==
    {<<n>> : n \in {m \in NodeSet(G) : HasEdge(G, m, m)}}
    \cup UNION {CyclesThrough(G, n, <<n>>) : n \in NodeSet(G)}

\* Neighbours that follows the edges forwards only
NeighboursSuccessorsOnly(G, n) == {m \in NodeSet(G) : HasEdge(G, n, m)}

\* G.to_undirected(): the neighbours of a node
Neighbours(G, n) == {m \in NodeSet(G) : HasEdge(G, n, m) \/ HasEdge(G, m, n)}

\* the breadth-first search of connected_components from the nodes of seen
RECURSIVE PlainBfs(_, _)
PlainBfs(G, seen) ==
    LET more == seen \cup UNION {Neighbours(G, n) : n \in seen}
    IN IF more = seen THEN seen ELSE PlainBfs(G, more)

\* list(nx.connected_components(undirected)): for v in G: if v not in seen ...
RECURSIVE ConnectedComponents(_, _, _)
ConnectedComponents(G, todo, seen) ==
    IF todo = <<>> THEN <<>>
    ELSE IF Head(todo) \in seen THEN ConnectedComponents(G, Tail(todo), seen)
    ELSE LET c == PlainBfs(G, {Head(todo)})
         IN <<c>> \o ConnectedComponents(G, Tail(todo), seen \cup c)

(***************************************************************************)
(* RiskEngine.validate_schedule_integrity                                  *)
(***************************************************************************)
\* an f-string with one replacement field: the literal text with {} where the
\* field stands (its dash written "-"), and the formatted value of the field
Issue(fmt, arg) == [fmt |-> fmt, arg |-> arg]

NoGraphText == "No schedule graph built"
CycleText == "Schedule contains {} circular dependency cycle(s) - this makes the schedule impossible to execute"
GroupsText == "Schedule has {} disconnected groups - some activities have no dependency relationship to others"
ZeroText == "{} activities have zero duration - verify these are milestones, not missing estimates"
IsolatedText == "Activity '{}' is completely isolated - no predecessors or successors"

\* the check for cycles
CycleIssues(G) ==
    IF ~IsDirectedAcyclicGraph(G)
    THEN <<Issue(CycleText, ToString(Cardinality(SimpleCycles(G))))>>
    ELSE <<>>

\* the check for disconnected components
GroupIssues(G) ==
    LET components == ConnectedComponents(G, G.node, {})
    IN IF Len(components) > 1
       THEN <<Issue(GroupsText, ToString(Len(components)))>>
       ELSE <<>>

\* ZeroIssues that appends one finding for every zero-duration activity
ZeroIssuesPerActivity(index) ==
    LET zero_duration == {id \in DOMAIN index : index[id].duration_days = 0}
        one == <<Issue(ZeroText, "1")>>
    IN IF Cardinality(zero_duration) >= 2 THEN one \o one
       ELSE IF zero_duration # {} THEN one
       ELSE <<>>

\* the check for zero durations, over self.activities.values()
ZeroIssues(index) ==
    LET zero_duration == {id \in DOMAIN index : index[id].duration_days = 0}
    IN IF zero_duration # {}
       THEN <<Issue(ZeroText, ToString(Cardinality(zero_duration)))>>
       ELSE <<>>

\* IsolatedIssues that tests the in-degree alone
IsolatedIssuesNoPredecessor(G) ==
    LET isolated(n) == InDegree(G, n) = 0
        found == SelectSeq(G.node, isolated)
    IN [k \in 1..Len(found) |-> Issue(IsolatedText, found[k])]

\* the loop over the nodes that reports the isolated ones
IsolatedIssues(G) ==
    LET isolated(n) == InDegree(G, n) = 0 /\ OutDegree(G, n) = 0
        found == SelectSeq(G.node, isolated)
    IN [k \in 1..Len(found) |-> Issue(IsolatedText, found[k])]

\* validate_schedule_integrity that takes only None for "no graph"
validate_on_none_only(g, index) ==
    IF g = None THEN <<Issue(NoGraphText, "")>>
    ELSE CycleIssues(g[1]) \o GroupIssues(g[1]) \o ZeroIssues(index) \o IsolatedIssues(g[1])

\* validate_schedule_integrity that looks for isolated activities first
validate_isolated_first(g, index) ==
    IF NotGraph(g) THEN <<Issue(NoGraphText, "")>>
    ELSE IsolatedIssues(g[1]) \o CycleIssues(g[1]) \o GroupIssues(g[1]) \o ZeroIssues(index)

validate_schedule_integrity(g, index) ==
    IF NotGraph(g) THEN <<Issue(NoGraphText, "")>>
    ELSE CycleIssues(g[1]) \o GroupIssues(g[1]) \o ZeroIssues(index) \o IsolatedIssues(g[1])

(***************************************************************************)
(* ScheduleInput (models.py) and POST /api/v1/validate (main.py)           *)
(***************************************************************************)
\* Field(..., min_length=1) and validate_dependency_references
ScheduleInputAccepts(sched) ==
    LET acts == sched.activities
        valid_ids == {acts[i].id : i \in DOMAIN acts}
    IN /\ Len(acts) >= 1
       /\ \A i \in DOMAIN acts : Range(acts[i].predecessors) \subseteq valid_ids

\* the handler: a fresh engine per request
validate_schedule(sched) ==
    LET G == build_graph(sched)
        issues == validate_schedule_integrity(Some(G), ActivityIndex(sched.activities))
    IN [valid |-> Len(issues) = 0,
        issues |-> issues,
        activity_count |-> Len(sched.activities),
        dependency_count |-> IF NotGraph(Some(G)) THEN 0 ELSE Cardinality(EdgeSet(G))]

(***************************************************************************)
(* POST /api/v1/analyse (main.py).  The handler is a coroutine: it runs    *)
(* from its start to the awaited call of the LLM client, where the event   *)
(* loop may run other handlers, and from there to its return.              *)
(***************************************************************************)
\* RiskEngine.__init__
RiskEngine == [graph |-> None, activities |-> <<>>]

\* the engine after engine.build_graph(sched)
EngineBuilt(engine, sched) ==
    [engine EXCEPT !.graph = Some(build_graph(sched)),
                   !.activities = ActivityIndex(sched.activities)]

\* steps 1 to 4 of the handler: its local variables when it reaches the await
AnalyseLocals(sched) ==
    LET engine == EngineBuilt(RiskEngine, sched)
    IN [engine |-> engine,
        issues |-> validate_schedule_integrity(engine.graph, engine.activities),
        critical_path |-> find_critical_path(engine.graph, engine.activities),
        high_risk_ids |-> find_high_risk_activities(engine.graph, engine.activities)]

\* what llm_client.analyse_schedule_risks may hand back: None without a
\* client or after a failure, else the model's answer as _validate_llm_output
\* leaves it, which checks the activity_id of a risk but not that its other
\* required fields are present
LlmRisk ==
    [activity_id |-> "A", activity_name |-> "Activity A", risk_level |-> HIGH,
     delay_probability |-> Float(1, 2), estimated_delay_days |-> 0]
LlmAnswer(risks) ==
    [overall_risk_level |-> HIGH, confidence_score |-> Float(9, 10),
     activity_risks |-> risks, key_risks |-> <<"Ground conditions">>]
LlmResults ==
    {None, Some(LlmAnswer(<<LlmRisk>>)),
     Some(LlmAnswer(<<[activity_id |-> "A", risk_level |-> HIGH]>>))}

\* ActivityRisk(**risk) raises unless the required fields are given
ActivityRiskFields == {"activity_id", "activity_name", "risk_level", "delay_probability"}

\* list(engine.activities.keys()): the identifiers in the order in which the
\* dict first got them, which is the order of the nodes of the engine's graph
KeyList(engine) ==
    LET indexed(id) == id \in DOMAIN engine.activities
    IN SelectSeq(engine.graph[1].node, indexed)

\* the most activities the fallback report assesses
ActivityRisksMax == 20

\* the ActivityRisk the fallback branch makes for activity aid
FallbackRisk(engine, high_risk_ids, aid) ==
    LET high == aid \in Range(high_risk_ids)
    IN [activity_id |-> aid,
        activity_name |-> engine.activities[aid].name,
        risk_level |-> IF high THEN HIGH ELSE MEDIUM,
        delay_probability |-> IF high THEN Float(6, 10) ELSE Float(3, 10),
        estimated_delay_days |-> 0,
        risk_factors |-> IF high THEN <<"High dependency count">> ELSE <<>>]

NoIssuesText == "No major structural issues detected"

\* step 6 of the handler: the response, from the schedule, the local
\* variables, the engine the handler holds and the result of the await
AssembleReport(sched, locals, engine, llm_result) ==
    IF llm_result # None
    THEN LET llm == llm_result[1]
         IN IF \E i \in DOMAIN llm.activity_risks :
                  ~(ActivityRiskFields \subseteq DOMAIN llm.activity_risks[i])
            THEN [status |-> 500, content |-> [detail |-> "Analysis failed"]]
            ELSE [status |-> 200,
                  content |->
                    [overall_risk_level |-> llm.overall_risk_level,
                     confidence_score |-> llm.confidence_score,
                     activity_risks |-> llm.activity_risks,
                     critical_path |-> locals.critical_path,
                     key_risks |-> llm.key_risks \o locals.issues,
                     activities_analysed |-> Len(sched.activities)]]
    ELSE LET keys == KeyList(engine)
             shown == IF Len(keys) < ActivityRisksMax THEN Len(keys)
                      ELSE ActivityRisksMax
         IN [status |-> 200,
             content |->
               [overall_risk_level |-> locals.critical_path.path_risk_level,
                confidence_score |-> Float(1, 2),
                activity_risks |->
                    [k \in 1..shown |->
                        FallbackRisk(engine, locals.high_risk_ids, keys[k])],
                critical_path |-> locals.critical_path,
                key_risks |-> IF locals.issues = <<>> THEN <<NoIssuesText>>
                              ELSE locals.issues,
                activities_analysed |-> Len(sched.activities)]]

\* FastAPI's answer to a body that is no ScheduleInput
Unprocessable == [status |-> 422, content |-> [detail |-> "validation error"]]

\* a request nobody has sent yet
IdleRequest ==
    [pc |-> "idle", endpoint |-> "", body |-> None, locals |-> None,
     response |-> None]

NoRequests == [r \in 1..MaxRequests |-> IdleRequest]

\* the engine of some request under way, as a handler would find it were the
\* engine kept in one place for all handlers
SomeEngine(reqs, r) ==
    LET under_way == {q \in DOMAIN reqs : reqs[q].locals # None}
    IN reqs[CHOOSE q \in under_way : \A o \in under_way : o <= q].locals[1].engine

\* the engine the handler of request r holds in its local variable
HandlerEngine(reqs, r) == reqs[r].locals[1].engine

(***************************************************************************)
(* Schedules handed to the engine.                                         *)
(***************************************************************************)
\* predecessor references (p, a) among n activities: activity a lists p
RefSets(n) ==
    {R \in SUBSET ((1..n) \X (1..n)) : n + Cardinality(R) <= MaxSize}

\* the predecessors field of activity a under the references R
PredecessorList(R, a, n) ==
    LET listed(p) == <<p, a>> \in R
        idx == SelectSeq([p \in 1..n |-> p], listed)
    IN [k \in 1..Len(idx) |-> IdPool[idx[k]]]

\* a schedule of n distinct activities with the references R and durations dur
StructuralSchedule(n, R, dur) ==
    [activities |->
        [a \in 1..n |->
            ScheduleActivity(IdPool[a], "Activity " \o IdPool[a], dur[a],
                             PredecessorList(R, a, n), None, NOT_STARTED)]]

\* durations around the thresholds of the path risk levels
LongDurations == {0, 1, 90, 180, 365}

\* the chain 1 -> 2 -> ... of Len(dur) activities with the durations dur; in a
\* ring the first activity lists the last as its predecessor
ChainSchedule(dur, ring) ==
    [activities |->
        [a \in 1..Len(dur) |->
            ScheduleActivity(IdPool[a], "Activity " \o IdPool[a], dur[a],
                             IF a > 1 THEN <<IdPool[a - 1]>>
                             ELSE IF ring THEN <<IdPool[Len(dur)]>>
                             ELSE <<>>,
                             None, NOT_STARTED)]]

\* the usual duration of an activity of a fan, a month, and the duration of
\* the one that lasts long, a quarter
FanDurations == <<30, 90>>

\* n activities of which the activities 2..last list the first as predecessor;
\* activity long, if there is one, lasts long
FanSchedule(n, last, long) ==
    [activities |->
        [a \in 1..n |->
            ScheduleActivity(IdPool[a], "Activity " \o IdPool[a],
                             IF a = long THEN FanDurations[2] ELSE FanDurations[1],
                             IF a \in 2..last THEN <<IdPool[1]>> ELSE <<>>,
                             None, NOT_STARTED)]]

\* activity records as a caller may write them: repeated identifiers,
\* references to identifiers that name no activity, trades and statuses
RecordChoices ==
    { ScheduleActivity(id, d[1], d[2], preds, d[3], d[4])
      : id \in {"A", "B"},
        preds \in {<<>>, <<"A">>, <<UnknownId, "B">>},
        d \in { <<"Foundations", 1, None, NOT_STARTED>>,
                <<"Superstructure", 2, Some("steelwork"), DELAYED>>,
                <<"Handover", 0, Some(""), NOT_STARTED>> } }

(***************************************************************************)
(* State.                                                                  *)
(***************************************************************************)
VARIABLES
    schedule,     \* the schedule the caller holds: None or Some(schedule)
    graph,        \* RiskEngine.graph: None or Some(DiGraph)
    activities,   \* RiskEngine.activities: id -> ScheduleActivity
    ret,          \* the value the last engine call returned, with its name
    frame,        \* the frame of a find_critical_path call under way: None or
                  \* Some(frame)
    noted,        \* the results the caller has noted since the last build:
                  \* for every analysis operation None or Some(result)
    requests      \* the requests to the API: for every request the position
                  \* of its handler, the handler's local variables and the
                  \* response

vars == <<schedule, graph, activities, ret, frame, noted, requests>>

\* the three analysis operations of the engine
AnalysisOps ==
    {"find_critical_path", "find_high_risk_activities", "validate_schedule_integrity"}

NothingNoted == [op \in AnalysisOps |-> None]

\* RiskEngine.__init__; the caller holds no schedule yet
Init ==
    /\ schedule = None
    /\ graph = None
    /\ activities = <<>>
    /\ ret = [op |-> "__init__"]
    /\ frame = None
    /\ noted = NothingNoted
    /\ requests = NoRequests

\* BuildGraph that adds the activities to the index it has
BuildGraphKeeping(s) ==
    /\ schedule' = Some(s)
    /\ activities' = ActivityIndex(s.activities) @@ activities
    /\ graph' = Some(build_graph(s))
    /\ ret' = [op |-> "build_graph", value |-> graph'[1]]
    /\ noted' = NothingNoted
    /\ UNCHANGED <<frame, requests>>

\* engine.build_graph(s)
BuildGraph(s) ==
    /\ schedule' = Some(s)
    /\ activities' = ActivityIndex(s.activities)
    /\ graph' = Some(build_graph(s))
    /\ ret' = [op |-> "build_graph", value |-> graph'[1]]
    /\ noted' = NothingNoted
    /\ UNCHANGED <<frame, requests>>

\* the first build of an engine, on a schedule of distinct activities: every shape of dependency
\* graph (chains, diamonds, cycles, self-references, isolated activities, no
\* activity at all) with every duration
BuildStructural ==
    /\ graph = None
    /\ \E n \in 0..MaxActs : \E R \in RefSets(n) : \E dur \in [1..n -> Durations] :
        BuildGraph(StructuralSchedule(n, R, dur))

\* the first build of an engine, on a short schedule of arbitrary records
BuildRecords ==
    /\ graph = None
    /\ \E n \in 1..(MaxActs - 1) : \E acts \in [1..n -> RecordChoices] :
        BuildGraph([activities |-> acts])

\* the first build of an engine, on a chain or a ring of activities that last
\* from no time to a year
BuildChain ==
    /\ graph = None
    /\ \E n \in 1..MaxActs : \E dur \in [1..n -> LongDurations] : \E ring \in BOOLEAN :
        BuildGraph(ChainSchedule(dur, ring))

\* FindCriticalPath that empties the activity index as it returns
FindCriticalPathForgetting ==
    /\ ret' = [op |-> "find_critical_path", value |-> find_critical_path(graph, activities)]
    /\ activities' = <<>>
    /\ UNCHANGED <<schedule, graph, frame, noted, requests>>

\* engine.find_critical_path()
FindCriticalPath ==
    /\ ret' = [op |-> "find_critical_path", value |-> find_critical_path(graph, activities)]
    /\ UNCHANGED <<schedule, graph, activities, frame, noted, requests>>

\* engine.validate_schedule_integrity()
ValidateScheduleIntegrity ==
    /\ ret' = [op |-> "validate_schedule_integrity",
               value |-> validate_schedule_integrity(graph, activities)]
    /\ UNCHANGED <<schedule, graph, activities, frame, noted, requests>>

\* POST /api/v1/validate with the schedule as its body: 422 when the body is
\* not a ScheduleInput, else the handler's answer
PostValidate ==
    /\ schedule # None
    /\ ret' = IF ScheduleInputAccepts(schedule[1])
              THEN [op |-> "POST /api/v1/validate", status |-> 200,
                    value |-> validate_schedule(schedule[1])]
              ELSE [op |-> "POST /api/v1/validate", status |-> 422]
    /\ UNCHANGED <<schedule, graph, activities, frame, noted, requests>>

Next ==
    \/ BuildStructural
    \/ BuildRecords
    \/ BuildChain
    \/ FindCriticalPath
    \/ ValidateScheduleIntegrity
    \/ PostValidate

Spec == Init /\ [][Next]_vars

(***************************************************************************)
(* find_critical_path statement by statement: the call is entered, passes  *)
(* its early returns, resumes the path generator once per step and         *)
(* returns.  The interpreter runs a call that is under way until it        *)
(* returns, which is the fairness of this specification.                   *)
(***************************************************************************)
\* the first build of an engine, on a schedule of distinct activities that all
\* last equally long
BuildUniform ==
    /\ graph = None
    /\ frame = None
    /\ \E n \in 0..MaxActs : \E R \in RefSets(n) : \E d \in Durations :
          BuildGraph(StructuralSchedule(n, R, [a \in 1..n |-> d]))

\* the caller calls engine.find_critical_path()
EnterFindCriticalPath ==
    /\ frame = None
    /\ frame' = Some(CallEntry)
    /\ ret' = [op |-> "call find_critical_path"]
    /\ UNCHANGED <<schedule, graph, activities, noted, requests>>

\* the two early returns, or entry to the loops
PassEarlyReturns ==
    /\ frame # None /\ frame[1].pc = "entry"
    /\ IF EarlyReturn(graph, activities) # None
       THEN /\ ret' = [op |-> "find_critical_path",
                       value |-> EarlyReturn(graph, activities)[1]]
            /\ frame' = None
       ELSE /\ frame' = Some(LoopEntry(graph[1]))
            /\ UNCHANGED ret
    /\ UNCHANGED <<schedule, graph, activities, noted, requests>>

\* one step of the source/sink loops
StepLoops ==
    /\ frame # None /\ frame[1].pc = "loops"
    /\ frame' = Some(LoopStep(graph[1], activities, frame[1]))
    /\ UNCHANGED <<schedule, graph, activities, ret, noted, requests>>

\* the bottleneck loop, the risk level and the return
ReturnFromLoops ==
    /\ frame # None /\ frame[1].pc = "return"
    /\ ret' = [op |-> "find_critical_path", value |-> LoopReturn(activities, frame[1])]
    /\ frame' = None
    /\ UNCHANGED <<schedule, graph, activities, noted, requests>>

\* the call under way makes its next step
RunFindCriticalPath == PassEarlyReturns \/ StepLoops \/ ReturnFromLoops

NextSteps ==
    \/ BuildUniform
    \/ EnterFindCriticalPath
    \/ PassEarlyReturns
    \/ StepLoops
    \/ ReturnFromLoops

SpecSteps == Init /\ [][NextSteps]_vars /\ WF_vars(RunFindCriticalPath)

(***************************************************************************)
(* The risk ranking on its own: schedules of every shape, and schedules of *)
(* more activities in which some depend on the first.                      *)
(***************************************************************************)
\* the first build of an engine, on a fan of activities
BuildFan ==
    /\ graph = None
    /\ \E n \in 1..MaxFan : \E last \in 1..n : \E long \in 0..n :
          BuildGraph(FanSchedule(n, last, long))

\* engine.find_high_risk_activities()
FindHighRiskActivities ==
    /\ ret' = [op |-> "find_high_risk_activities",
               value |-> find_high_risk_activities(graph, activities)]
    /\ UNCHANGED <<schedule, graph, activities, frame, noted, requests>>

NextRisk ==
    \/ BuildStructural
    \/ BuildFan
    \/ FindHighRiskActivities

SpecRisk == Init /\ [][NextRisk]_vars

(***************************************************************************)
(* The three analysis operations called in any order on one engine, the    *)
(* caller keeping for each operation a result it got earlier.              *)
(***************************************************************************)
\* the caller notes the result of the last call, the first it notes for that
\* operation since the build
Note ==
    /\ ret.op \in AnalysisOps
    /\ noted[ret.op] = None
    /\ noted' = [noted EXCEPT ![ret.op] = Some(ret.value)]
    /\ UNCHANGED <<schedule, graph, activities, ret, frame, requests>>

NextCalls ==
    \/ BuildUniform
    \/ BuildRecords
    \/ FindCriticalPath
    \/ FindHighRiskActivities
    \/ ValidateScheduleIntegrity
    \/ Note

SpecCalls == Init /\ [][NextCalls]_vars

(***************************************************************************)
(* The risk scores on their own: chains of activities that last up to a    *)
(* year, schedules with several shortest paths between two activities, and *)
(* schedules of the size at which the centrality is left out.              *)
(***************************************************************************)
\* a first activity, k activities that depend on it and a last activity that
\* depends on those k, with a shortcut on the first as well; the first
\* activity lasts d days, the others a month
LayeredSchedule(k, shortcut, d) ==
    [activities |->
        [a \in 1..(k + 2) |->
            ScheduleActivity(IdPool[a], "Activity " \o IdPool[a],
                             IF a = 1 THEN d ELSE FanDurations[1],
                             IF a = 1 THEN <<>>
                             ELSE IF a <= k + 1 THEN <<IdPool[1]>>
                             ELSE [p \in 1..k |-> IdPool[p + 1]]
                                  \o (IF shortcut THEN <<IdPool[1]>> ELSE <<>>),
                             None, NOT_STARTED)]]

\* the identifier of the i-th activity of a wide schedule
WideId(i) == "N" \o ToString(i)

\* n activities that last d days each: the second depends on the first, the
\* third on the second, the others on none
WideSchedule(n, d) ==
    [activities |->
        [a \in 1..n |->
            ScheduleActivity(WideId(a), "Activity", d,
                             IF a \in {2, 3} THEN <<WideId(a - 1)>> ELSE <<>>,
                             None, NOT_STARTED)]]

\* the first build of an engine, on a layered schedule
BuildLayered ==
    /\ graph = None
    /\ \E k \in 1..MaxActs : \E shortcut \in BOOLEAN : \E d \in LongDurations :
          BuildGraph(LayeredSchedule(k, shortcut, d))

\* the first build of an engine, on a schedule just below, at or just above
\* the size from which find_high_risk_activities leaves the centrality out
BuildWide ==
    /\ graph = None
    /\ \E n \in (CentralityMaxNodes - 1)..(CentralityMaxNodes + 1) :
       \E k \in DOMAIN FanDurations :
          BuildGraph(WideSchedule(n, FanDurations[k]))

NextScore ==
    \/ BuildChain
    \/ BuildLayered
    \/ BuildWide
    \/ FindHighRiskActivities

SpecScore == Init /\ [][NextScore]_vars

(***************************************************************************)
(* The critical path of schedules with many paths: every activity depends  *)
(* on all the activities before it.                                        *)
(***************************************************************************)
\* n activities of d days each, each listing all earlier ones as predecessors
DenseSchedule(n, d) ==
    [activities |->
        [a \in 1..n |->
            ScheduleActivity(IdPool[a], "Activity " \o IdPool[a], d,
                             [p \in 1..(a - 1) |-> IdPool[p]],
                             None, NOT_STARTED)]]

\* the first build of an engine, on a dense schedule
BuildDense ==
    /\ graph = None
    /\ \E n \in 1..MaxDense : \E d \in Durations :
          BuildGraph(DenseSchedule(n, d))

NextPaths ==
    \/ BuildDense
    \/ BuildChain
    \/ FindCriticalPath

SpecPaths == Init /\ [][NextPaths]_vars

(***************************************************************************)
(* One engine built again and again: build_graph on a schedule, then on    *)
(* another, with the analysis operations called in between.                *)
(***************************************************************************)
\* the activity records of the schedules an engine is rebuilt on: a record
\* may list "A", an activity of some of these schedules and not of others
RebuildChoices ==
    { ScheduleActivity(id, "Activity " \o id, d, preds, None, NOT_STARTED)
      : id \in {"A", "B"}, preds \in {<<>>, <<"A">>}, d \in {0, 2} }

\* the first build of an engine, on a schedule of MaxActs - 1 records
FirstBuild ==
    /\ graph = None
    /\ \E acts \in [1..(MaxActs - 1) -> RebuildChoices] :
          BuildGraph([activities |-> acts])

\* build_graph on an engine that has a graph, on a schedule of as many
\* records or fewer
Rebuild ==
    /\ graph # None
    /\ \E n \in 0..(MaxActs - 1) : \E acts \in [1..n -> RebuildChoices] :
          BuildGraph([activities |-> acts])

NextRebuild ==
    \/ FirstBuild
    \/ Rebuild
    \/ FindCriticalPath
    \/ FindHighRiskActivities
    \/ ValidateScheduleIntegrity

SpecRebuild == Init /\ [][NextRebuild]_vars

(***************************************************************************)
(* The API under several requests at once.  A handler runs alone from its  *)
(* start to its await and from its await to its return; between the two,   *)
(* handlers of other requests may start, resume and return.                *)
(***************************************************************************)
\* the declarations of successors and predecessors a body may carry
SuccessorChoices == {<<>>, <<"B">>, <<UnknownId>>}
PredecessorChoices == {<<>>, <<"A">>, <<UnknownId>>}

\* request bodies: activity A alone or followed by activity B, A declaring
\* successors and B predecessors
RequestBodies ==
    LET A(succ) == WithSuccessors(
                     ScheduleActivity("A", "Activity A", 1, <<>>, None, NOT_STARTED),
                     succ)
        B(pred) == ScheduleActivity("B", "Activity B", 0, pred, None, NOT_STARTED)
    IN {[activities |-> <<A(succ)>>] : succ \in SuccessorChoices}
       \cup {[activities |-> <<A(succ), B(pred)>>] :
                succ \in SuccessorChoices, pred \in PredecessorChoices}

\* POST /api/v1/analyse arrives as request r: 422 when the body is not a
\* ScheduleInput, else the handler runs to its await
RequestAnalyse(r, body) ==
    /\ requests[r].pc = "idle"
    /\ requests' =
         [requests EXCEPT ![r] =
            IF ScheduleInputAccepts(body)
            THEN [pc |-> "awaiting", endpoint |-> "analyse", body |-> Some(body),
                  locals |-> Some(AnalyseLocals(body)), response |-> None]
            ELSE [pc |-> "done", endpoint |-> "analyse", body |-> Some(body),
                  locals |-> None, response |-> Some(Unprocessable)]]
    /\ UNCHANGED <<schedule, graph, activities, ret, frame, noted>>

\* the await of request r yields llm_result and the handler runs to its
\* return
ResumeAnalyse(r, llm_result) ==
    /\ requests[r].pc = "awaiting"
    /\ requests' =
         [requests EXCEPT ![r].pc = "done",
                          ![r].response =
                              Some(AssembleReport(requests[r].body[1],
                                                  requests[r].locals[1],
                                                  HandlerEngine(requests, r),
                                                  llm_result))]
    /\ UNCHANGED <<schedule, graph, activities, ret, frame, noted>>

\* POST /api/v1/validate arrives as request r; its handler awaits nothing
RequestValidate(r, body) ==
    /\ requests[r].pc = "idle"
    /\ requests' =
         [requests EXCEPT ![r] =
            IF ScheduleInputAccepts(body)
            THEN [pc |-> "done", endpoint |-> "validate", body |-> Some(body),
                  locals |-> Some([engine |-> EngineBuilt(RiskEngine, body)]),
                  response |-> Some([status |-> 200,
                                     content |-> validate_schedule(body)])]
            ELSE [pc |-> "done", endpoint |-> "validate", body |-> Some(body),
                  locals |-> None, response |-> Some(Unprocessable)]]
    /\ UNCHANGED <<schedule, graph, activities, ret, frame, noted>>

PostAnalyse == \E r \in 1..MaxRequests : \E body \in RequestBodies : RequestAnalyse(r, body)
Resume == \E r \in 1..MaxRequests : \E llm_result \in LlmResults : ResumeAnalyse(r, llm_result)
PostValidateBody == \E r \in 1..MaxRequests : \E body \in RequestBodies : RequestValidate(r, body)

NextRequests ==
    \/ PostAnalyse
    \/ Resume
    \/ PostValidateBody

SpecRequests == Init /\ [][NextRequests]_vars

(***************************************************************************)
(* Graph notions the properties are stated with, defined on the edge set   *)
(* and the node attributes alone.                                          *)
(***************************************************************************)
\* the last call on the engine was op
Returned(op) == ret.op = op

\* the engine's graph, once built
TheGraph == graph[1]

\* the sequences of k distinct nodes joined by edges: a node, or such a
\* sequence of k - 1 nodes and an edge from its last node to a node not on it
RECURSIVE SimplePathsOfLen(_, _)
SimplePathsOfLen(G, k) ==
    IF k = 1 THEN {<<n>> : n \in NodeSet(G)}
    ELSE UNION { {Append(p, v) : v \in {w \in NodeSet(G) \ Range(p) :
                                          <<p[Len(p)], w>> \in EdgeSet(G)}}
                 : p \in SimplePathsOfLen(G, k - 1) }

\* the sequences of distinct nodes joined by edges
SimplePathsOf(G) == UNION {SimplePathsOfLen(G, k) : k \in 1..Len(G.node)}

IsSourceNode(G, n) == \A u \in NodeSet(G) : <<u, n>> \notin EdgeSet(G)
IsSinkNode(G, n) == \A v \in NodeSet(G) : <<n, v>> \notin EdgeSet(G)

\* the simple paths from a source to a sink, one-node paths included
SourceToSinkPaths(G) ==
    {p \in SimplePathsOf(G) : IsSourceNode(G, p[1]) /\ IsSinkNode(G, p[Len(p)])}

\* a directed cycle: a simple path whose last node has an edge to its first
HasDirectedCycle(G) ==
    \E p \in SimplePathsOf(G) : <<p[Len(p)], p[1]>> \in EdgeSet(G)

\* the sum of the node durations along p
DurationAlong(G, p) == SumSeq([i \in 1..Len(p) |-> G.attr[p[i]].duration])

MaxOf(S) == CHOOSE m \in S : \A x \in S : x <= m

(***************************************************************************)
(* C1. On an acyclic graph with at least one node, the total duration      *)
(* find_critical_path returns is the largest sum of node durations over    *)
(* all simple source-to-sink paths, one-node paths included.               *)
(***************************************************************************)
C1_TotalIsMaxOverPaths ==
    (/\ Returned("find_critical_path")
     /\ graph # None
     /\ Len(TheGraph.node) >= 1
     /\ ~HasDirectedCycle(TheGraph))
    => ret.value.total_duration_days =
          MaxOf({DurationAlong(TheGraph, p) : p \in SourceToSinkPaths(TheGraph)})

\* an acyclic graph with two paths of different positive length from one
\* source, whose longer one gives the total
C1_Witness ==
    /\ Returned("find_critical_path")
    /\ graph # None
    /\ ~HasDirectedCycle(TheGraph)
    /\ \E p, q \in SourceToSinkPaths(TheGraph) :
          /\ Len(p) >= 2 /\ Len(q) >= 2
          /\ p[1] = q[1]
          /\ 0 < DurationAlong(TheGraph, p)
          /\ DurationAlong(TheGraph, p) < DurationAlong(TheGraph, q)
          /\ ret.value.total_duration_days = DurationAlong(TheGraph, q)

(***************************************************************************)
(* C2. On a schedule that is one linear chain a1 -> ... -> ak (k >= 1, any *)
(* non-negative durations) find_critical_path returns the path [a1..ak]    *)
(* and the sum of the k durations.                                         *)
(***************************************************************************)
\* p runs through every node of G and the edges of G are exactly its steps
IsChainOrder(G, p) ==
    /\ Len(p) = Len(G.node)
    /\ EdgeSet(G) = {<<p[i], p[i + 1]>> : i \in 1..(Len(p) - 1)}

C2_LinearChain ==
    (Returned("find_critical_path") /\ graph # None)
    => \A p \in SimplePathsOf(TheGraph) :
          IsChainOrder(TheGraph, p)
          => /\ ret.value.path_activities = p
             /\ ret.value.total_duration_days = DurationAlong(TheGraph, p)

(***************************************************************************)
(* C3. In every result of find_critical_path the bottleneck is none        *)
(* exactly when the path is empty, and otherwise it is the node of the     *)
(* path with the largest duration, the first such node along the path.     *)
(***************************************************************************)
\* the first position of path that carries the largest duration on it
FirstLongest(index, path) ==
    CHOOSE i \in DOMAIN path :
        /\ \A j \in DOMAIN path :
              index[path[j]].duration_days <= index[path[i]].duration_days
        /\ \A j \in 1..(i - 1) :
              index[path[j]].duration_days < index[path[i]].duration_days

C3_Bottleneck ==
    Returned("find_critical_path")
    => LET r == ret.value
       IN /\ (r.bottleneck_activity = None) <=> (r.path_activities = <<>>)
          /\ r.path_activities # <<>>
             => r.bottleneck_activity =
                   Some(r.path_activities[FirstLongest(activities, r.path_activities)])

(***************************************************************************)
(* C4. For a schedule of a single activity with no predecessors (any       *)
(* non-negative duration) validate_schedule_integrity reports exactly one  *)
(* isolated-activity finding and find_critical_path returns that activity  *)
(* as the path, with its duration as the total.                            *)
(***************************************************************************)
IsIsolatedFinding(issue) == issue.fmt = IsolatedText

\* the number of entries of a report that satisfy Test
CountIssues(report, Test(_)) == Len(SelectSeq(report, Test))

\* the caller built the graph of a schedule of one activity without predecessors
SingleActivityBuilt ==
    /\ graph # None
    /\ schedule # None
    /\ Len(schedule[1].activities) = 1
    /\ schedule[1].activities[1].predecessors = <<>>

C4_SingleActivity ==
    SingleActivityBuilt
    => LET a == schedule[1].activities[1]
       IN /\ Returned("validate_schedule_integrity")
             => CountIssues(ret.value, IsIsolatedFinding) = 1
          /\ Returned("find_critical_path")
             => /\ ret.value.path_activities = <<a.id>>
                /\ ret.value.total_duration_days = a.duration_days

(***************************************************************************)
(* C6. find_critical_path returns an empty path only when the graph has no *)
(* nodes; on a graph with a node, a source and a sink the path is a        *)
(* sequence of distinct nodes from a source to a sink along edges.         *)
(***************************************************************************)
C6_PathShape ==
    (Returned("find_critical_path") /\ graph # None)
    => /\ ret.value.path_activities = <<>> => Len(TheGraph.node) = 0
       /\ (/\ Len(TheGraph.node) >= 1
           /\ \E n \in NodeSet(TheGraph) : IsSourceNode(TheGraph, n)
           /\ \E n \in NodeSet(TheGraph) : IsSinkNode(TheGraph, n))
          => ret.value.path_activities \in SourceToSinkPaths(TheGraph)

(***************************************************************************)
(* C5. On a graph with a dependency cycle a call of find_critical_path     *)
(* that is under way returns a result, in the fallback branch (no source   *)
(* or no sink) and in the loops (a source and a sink exist).               *)
(***************************************************************************)
C5_Terminates ==
    (frame # None /\ graph # None /\ HasDirectedCycle(TheGraph))
    ~> (frame = None /\ Returned("find_critical_path"))

\* a call on a cyclic graph with a source and a sink went through the loops and
\* returned a path
C5_Witness ==
    /\ frame = None
    /\ Returned("find_critical_path")
    /\ graph # None
    /\ HasDirectedCycle(TheGraph)
    /\ \E n \in NodeSet(TheGraph) : IsSourceNode(TheGraph, n)
    /\ \E n \in NodeSet(TheGraph) : IsSinkNode(TheGraph, n)
    /\ ret.value.path_activities # <<>>

(***************************************************************************)
(* C7. After build_graph(schedule) the edges are exactly the pairs (p, a)  *)
(* with a an input activity, p listed in a's predecessors and p the        *)
(* identifier of an activity of the input; a reference to an unknown       *)
(* identifier adds no edge and no node.                                    *)
(***************************************************************************)
\* the identifiers of the input records
InputIds(sched) == {sched.activities[i].id : i \in DOMAIN sched.activities}

\* the pairs (p, a.id) with p listed by record a and Known(p, a.id)
ListedPairs(sched, Known(_, _)) ==
    {e \in (InputIds(sched) \cup {UnknownId}) \X InputIds(sched) :
        \E i \in DOMAIN sched.activities :
            /\ sched.activities[i].id = e[2]
            /\ e[1] \in Range(sched.activities[i].predecessors)
            /\ Known(e[1], e[2])}

\* as claimed: p names another activity of the input
C7_EdgesToOtherActivities ==
    Returned("build_graph")
    => LET other(p, a) == p \in InputIds(schedule[1]) /\ p # a
       IN /\ EdgeSet(ret.value) = ListedPairs(schedule[1], other)
          /\ NodeSet(ret.value) = InputIds(schedule[1])

\* as built: p names any activity of the input, the listing activity included
C7_Edges ==
    Returned("build_graph")
    => LET present(p, a) == p \in InputIds(schedule[1])
       IN /\ EdgeSet(ret.value) = ListedPairs(schedule[1], present)
          /\ NodeSet(ret.value) = InputIds(schedule[1])

\* a build from records that list an unknown identifier, a known one and
\* their own
C7_Witness ==
    /\ Returned("build_graph")
    /\ \E i \in DOMAIN schedule[1].activities :
          UnknownId \in Range(schedule[1].activities[i].predecessors)
    /\ \E n, m \in NodeSet(ret.value) :
          n # m /\ <<n, n>> \in EdgeSet(ret.value) /\ <<n, m>> \in EdgeSet(ret.value)

(***************************************************************************)
(* C8. After build_graph(schedule) every input activity is one node (as    *)
(* many nodes as input activities), the node carries the activity's        *)
(* duration, its trade or "general" when the trade is absent, and its      *)
(* status, and the activity index maps every node to its activity.         *)
(***************************************************************************)
C8_NodePerActivity ==
    Returned("build_graph")
    => LET acts == schedule[1].activities
           G == ret.value
       IN /\ Len(G.node) = Len(acts)
          /\ \A i \in DOMAIN acts :
                /\ acts[i].id \in NodeSet(G)
                /\ G.attr[acts[i].id].duration = acts[i].duration_days
                /\ G.attr[acts[i].id].status = acts[i].status
                /\ G.attr[acts[i].id].trade =
                      IF acts[i].trade \in {None, Some("")}
                      THEN "general" ELSE acts[i].trade[1]
          /\ DOMAIN activities = NodeSet(G)
          /\ \A n \in NodeSet(G) : activities[n] \in Range(acts) /\ activities[n].id = n

(***************************************************************************)
(* C9. For every built graph, one of zero nodes included, the report of    *)
(* validate_schedule_integrity is empty exactly when the graph is acyclic, *)
(* has at most one undirected connected component, no zero-duration        *)
(* activity and no node without edges; the validate endpoint answers       *)
(* valid = true exactly when the report is empty.                          *)
(***************************************************************************)
\* u and v are joined by a chain of edges taken in either direction
Joined(G, u, v) ==
    \E k \in 1..Len(G.node) : \E p \in [1..k -> NodeSet(G)] :
        /\ p[1] = u /\ p[k] = v
        /\ \A i \in 1..(k - 1) :
              <<p[i], p[i + 1]>> \in EdgeSet(G) \/ <<p[i + 1], p[i]>> \in EdgeSet(G)

\* the undirected connected components, as sets of nodes
ComponentsOf(G) == {{v \in NodeSet(G) : Joined(G, u, v)} : u \in NodeSet(G)}

StructurallyValid(G) ==
    /\ ~HasDirectedCycle(G)
    /\ Cardinality(ComponentsOf(G)) <= 1
    /\ \A n \in NodeSet(G) : G.attr[n].duration # 0
    /\ \A n \in NodeSet(G) : ~(IsSourceNode(G, n) /\ IsSinkNode(G, n))

C9_EmptyReportIffValid ==
    /\ (Returned("validate_schedule_integrity") /\ graph # None)
       => (ret.value = <<>> <=> StructurallyValid(TheGraph))
    /\ (Returned("POST /api/v1/validate") /\ ret.status = 200)
       => (ret.value.valid <=> ret.value.issues = <<>>)

(***************************************************************************)
(* C10. The report holds exactly one cycle-detected finding when the graph *)
(* has a directed cycle (a self-loop included) and none when it is         *)
(* acyclic; the count in the finding is the number of elementary cycles.   *)
(***************************************************************************)
IsCycleFinding(issue) == issue.fmt = CycleText

\* the elementary cycles, each as the set of its edges
ElementaryCycles(G) ==
    { {<<p[i], p[(i % Len(p)) + 1]>> : i \in 1..Len(p)} :
      p \in {q \in SimplePathsOf(G) : <<q[Len(q)], q[1]>> \in EdgeSet(G)} }

C10_CycleFinding ==
    (Returned("validate_schedule_integrity") /\ graph # None)
    => LET found == SelectSeq(ret.value, IsCycleFinding)
       IN /\ Len(found) = IF HasDirectedCycle(TheGraph) THEN 1 ELSE 0
          /\ \A k \in DOMAIN found :
                found[k].arg = ToString(Cardinality(ElementaryCycles(TheGraph)))

\* a report on a graph with a self-loop and a longer cycle
C10_Witness ==
    /\ Returned("validate_schedule_integrity")
    /\ graph # None
    /\ \E n, m \in NodeSet(TheGraph) :
          /\ n # m
          /\ {<<n, n>>, <<n, m>>, <<m, n>>} \subseteq EdgeSet(TheGraph)
    /\ CountIssues(ret.value, IsCycleFinding) = 1

(***************************************************************************)
(* C11. The report holds exactly one disconnected-groups finding when the  *)
(* graph, its edges taken in either direction, has more than one connected *)
(* component, and none otherwise; the count in the finding is the number   *)
(* of components.                                                          *)
(***************************************************************************)
IsGroupsFinding(issue) == issue.fmt = GroupsText

\* no edge of G, in either direction, joins S and the rest of the nodes
ClosedUnderEdges(G, S) ==
    \A n \in S : \A m \in NodeSet(G) \ S : ~HasEdge(G, n, m) /\ ~HasEdge(G, m, n)

\* the connected component of u: the nodes that lie in every one of the
\* closed sets that u lies in
ComponentOf(G, closed, u) ==
    {v \in NodeSet(G) : \A S \in closed : u \in S => v \in S}

GroupsOf(G) ==
    LET closed == {S \in SUBSET NodeSet(G) : ClosedUnderEdges(G, S)}
    IN {ComponentOf(G, closed, u) : u \in NodeSet(G)}

C11_GroupsFinding ==
    (Returned("validate_schedule_integrity") /\ graph # None)
    => LET found == SelectSeq(ret.value, IsGroupsFinding)
           groups == Cardinality(GroupsOf(TheGraph))
       IN /\ Len(found) = IF groups > 1 THEN 1 ELSE 0
          /\ \A k \in DOMAIN found : found[k].arg = ToString(groups)

\* a connected pair plus one unrelated activity is reported as 2 groups
C11_Witness ==
    /\ Returned("validate_schedule_integrity")
    /\ graph # None
    /\ Len(TheGraph.node) = 3
    /\ \E n, m \in NodeSet(TheGraph) : n # m /\ EdgeSet(TheGraph) = {<<n, m>>}
    /\ \E k \in DOMAIN ret.value : ret.value[k] = Issue(GroupsText, "2")

(***************************************************************************)
(* C12. The report holds exactly one zero-duration finding when an         *)
(* activity of the engine has duration 0 and none otherwise; the count in  *)
(* the finding is the number of such activities; and with or without that  *)
(* finding the report holds the cycle, groups and isolated findings the    *)
(* graph calls for and nothing else.                                       *)
(***************************************************************************)
IsZeroFinding(issue) == issue.fmt = ZeroText

\* the nodes whose activity lasts zero days
ZeroNodes(G) == {n \in NodeSet(G) : G.attr[n].duration = 0}

\* the nodes without any edge
EdgelessNodes(G) == {n \in NodeSet(G) : IsSourceNode(G, n) /\ IsSinkNode(G, n)}

C12_ZeroFinding ==
    (Returned("validate_schedule_integrity") /\ graph # None)
    => LET found == SelectSeq(ret.value, IsZeroFinding)
           zeros == Cardinality(ZeroNodes(TheGraph))
       IN /\ Len(found) = IF zeros >= 1 THEN 1 ELSE 0
          /\ \A k \in DOMAIN found : found[k].arg = ToString(zeros)
          /\ Len(TheGraph.node) >= 1 =>
             /\ CountIssues(ret.value, IsCycleFinding)
                   = IF HasDirectedCycle(TheGraph) THEN 1 ELSE 0
             /\ CountIssues(ret.value, IsGroupsFinding)
                   = IF Cardinality(GroupsOf(TheGraph)) > 1 THEN 1 ELSE 0
             /\ CountIssues(ret.value, IsIsolatedFinding)
                   = Cardinality(EdgelessNodes(TheGraph))
             /\ Len(ret.value) = Len(found)
                   + CountIssues(ret.value, IsCycleFinding)
                   + CountIssues(ret.value, IsGroupsFinding)
                   + CountIssues(ret.value, IsIsolatedFinding)

\* two milestones and a day of work, one of the milestones on a cycle and the
\* other without edges: the zero finding counts 2 next to three other findings
C12_Witness ==
    /\ Returned("validate_schedule_integrity")
    /\ graph # None
    /\ Cardinality(ZeroNodes(TheGraph)) = 2
    /\ Len(TheGraph.node) = 3
    /\ \E k \in DOMAIN ret.value : ret.value[k] = Issue(ZeroText, "2")
    /\ Len(ret.value) = 4

(***************************************************************************)
(* C13. For every node with in-degree 0 and out-degree 0 the report holds  *)
(* exactly one isolated-activity finding naming it, and it holds no        *)
(* isolated-activity finding for a node with an incoming or outgoing edge. *)
(***************************************************************************)
C13_IsolatedFindings ==
    (Returned("validate_schedule_integrity") /\ graph # None)
    => LET found == SelectSeq(ret.value, IsIsolatedFinding)
           names(n) == {k \in DOMAIN found : found[k].arg = n}
       IN /\ \A n \in NodeSet(TheGraph) :
                Cardinality(names(n)) = IF n \in EdgelessNodes(TheGraph) THEN 1 ELSE 0
          /\ \A k \in DOMAIN found : found[k].arg \in NodeSet(TheGraph)

\* a report on a graph with two nodes without edges, one node with a self-loop
\* only and none else
C13_Witness ==
    /\ Returned("validate_schedule_integrity")
    /\ graph # None
    /\ Cardinality(EdgelessNodes(TheGraph)) = 2
    /\ \E n \in NodeSet(TheGraph) : EdgeSet(TheGraph) = {<<n, n>>}
    /\ CountIssues(ret.value, IsIsolatedFinding) = 2

(***************************************************************************)
(* C14. In every report the findings stand in the order of the checks: the *)
(* cycle finding, the disconnected-groups finding, the zero-duration       *)
(* finding, the isolated-activity findings; no finding of a later category *)
(* precedes one of an earlier category.                                    *)
(***************************************************************************)
\* the place of a finding's category in the order of the checks
CategoryRank(issue) ==
    CASE IsCycleFinding(issue) -> 1
      [] IsGroupsFinding(issue) -> 2
      [] IsZeroFinding(issue) -> 3
      [] IsIsolatedFinding(issue) -> 4
      [] OTHER -> 0

C14_CategoryOrder ==
    Returned("validate_schedule_integrity")
    => \A i, j \in DOMAIN ret.value :
          i < j => CategoryRank(ret.value[i]) <= CategoryRank(ret.value[j])

\* a report with a finding of each of the four categories
C14_Witness ==
    /\ Returned("validate_schedule_integrity")
    /\ {CategoryRank(ret.value[k]) : k \in DOMAIN ret.value} = {1, 2, 3, 4}

(***************************************************************************)
(* C15. For a graph with n nodes find_high_risk_activities returns exactly *)
(* ceil(n / 5) identifiers when n >= 1 (the single node when n = 1) and an *)
(* empty result when n = 0; the identifiers are distinct nodes.            *)
(***************************************************************************)
\* ceil(n / d) for n >= 0
CeilDiv(n, d) == (n + d - 1) \div d

C15_TopCount ==
    (Returned("find_high_risk_activities") /\ graph # None)
    => LET n == Len(TheGraph.node)
           r == ret.value
       IN /\ Len(r) = CeilDiv(n, 5)
          /\ n = 1 => r = TheGraph.node
          /\ \A i, j \in DOMAIN r : i # j => r[i] # r[j]
          /\ Range(r) \subseteq NodeSet(TheGraph)

(***************************************************************************)
(* C16. The identifiers find_high_risk_activities returns are in           *)
(* non-increasing order of score, nodes of equal score in the order of     *)
(* their insertion into the graph, and no node left out has a higher score *)
(* than a node returned.                                                   *)
(***************************************************************************)
\* the scores of the nodes of the engine's graph, by node
ScoreTable ==
    LET scores == RiskScores(TheGraph, activities)
    IN [n \in NodeSet(TheGraph) |-> scores[NodePos(TheGraph, n)].score]

\* the entries of r are ranked by score: never a smaller score before a
\* larger, never a later node before an earlier of equal score
RankedIn(score, r) ==
    \A i, j \in DOMAIN r :
        i < j =>
           /\ ~FloatLess(score[r[i]], score[r[j]])
           /\ score[r[i]] = score[r[j]]
              => NodePos(TheGraph, r[i]) < NodePos(TheGraph, r[j])

C16_RankedByScore ==
    (Returned("find_high_risk_activities") /\ graph # None)
    => LET r == ret.value
           score == ScoreTable
       IN /\ RankedIn(score, r)
          /\ \A i \in DOMAIN r : \A m \in NodeSet(TheGraph) \ Range(r) :
                RankedIn(score, <<r[i], m>>)

\* two identifiers of equal score returned while a third node of that score,
\* inserted later, is left out
C16_Witness ==
    /\ Returned("find_high_risk_activities")
    /\ graph # None
    /\ Len(ret.value) = 2
    /\ LET score == ScoreTable
       IN /\ score[ret.value[1]] = score[ret.value[2]]
          /\ \E m \in NodeSet(TheGraph) \ Range(ret.value) :
                score[m] = score[ret.value[2]]

(***************************************************************************)
(* C17. On an engine whose graph is not rebuilt, however the three         *)
(* analysis operations are called, a call returns what an earlier call of  *)
(* the same operation returned, and no call changes the graph or the       *)
(* activity index.                                                         *)
(***************************************************************************)
C17_SameResults ==
    /\ [](\A op \in AnalysisOps :
            (Returned(op) /\ noted[op] # None) => ret.value = noted[op][1])
    /\ [][ret'.op \in AnalysisOps => (graph' = graph /\ activities' = activities)]_vars

\* on a graph with a cycle the caller has noted a result of each of the three
\* operations, and the last call, of find_critical_path, returned the noted one
C17_Witness ==
    /\ \A op \in AnalysisOps : noted[op] # None
    /\ Returned("find_critical_path")
    /\ ret.value = noted["find_critical_path"][1]
    /\ graph # None
    /\ HasDirectedCycle(TheGraph)
    /\ Len(noted["validate_schedule_integrity"][1]) >= 2
    /\ Len(noted["find_high_risk_activities"][1]) = 1

(***************************************************************************)
(* C18. When the graph has no nodes find_critical_path returns an empty    *)
(* path, total duration 0, no bottleneck and the risk level low.           *)
(***************************************************************************)
C18_NoNodes ==
    (Returned("find_critical_path") /\ graph # None /\ NodeSet(TheGraph) = {})
    => /\ ret.value.path_activities = <<>>
       /\ ret.value.total_duration_days = 0
       /\ ret.value.bottleneck_activity = None
       /\ ret.value.path_risk_level = LOW

\* find_critical_path returned on the graph built from no activities
C18_Witness ==
    /\ Returned("find_critical_path")
    /\ graph # None
    /\ schedule[1].activities = <<>>
    /\ NodeSet(TheGraph) = {}
    /\ EdgeSet(TheGraph) = {}

(***************************************************************************)
(* C19. When the graph has a node but no source or no sink,                *)
(* find_critical_path returns all nodes in insertion order as the path,    *)
(* the sum of all node durations as the total and the risk level medium    *)
(* whatever that total.                                                    *)
(***************************************************************************)
\* G has a node but no node without predecessors or none without successors
NoSourceOrNoSink(G) ==
    /\ NodeSet(G) # {}
    /\ \/ \A n \in NodeSet(G) : ~IsSourceNode(G, n)
       \/ \A n \in NodeSet(G) : ~IsSinkNode(G, n)

C19_Fallback ==
    (Returned("find_critical_path") /\ graph # None /\ NoSourceOrNoSink(TheGraph))
    => /\ ret.value.path_activities = TheGraph.node
       /\ ret.value.total_duration_days = DurationAlong(TheGraph, TheGraph.node)
       /\ ret.value.path_risk_level = MEDIUM

\* a ring of activities that together last more than a year is of medium risk
C19_Witness ==
    /\ Returned("find_critical_path")
    /\ graph # None
    /\ NoSourceOrNoSink(TheGraph)
    /\ Len(TheGraph.node) >= 2
    /\ ret.value.total_duration_days > 365
    /\ ret.value.path_risk_level = MEDIUM

(***************************************************************************)
(* C20. When the graph has a source and a sink the risk level              *)
(* find_critical_path returns follows from the total it returns alone:     *)
(* critical above 365 days, else high above 180, else medium above 90,     *)
(* else low; totals of exactly 365, 180 and 90 give high, medium and low.  *)
(***************************************************************************)
RiskTier(total) ==
    CASE total > 365 -> CRITICAL
      [] total <= 365 /\ total > 180 -> HIGH
      [] total <= 180 /\ total > 90 -> MEDIUM
      [] total <= 90 -> LOW

C20_RiskFromTotal ==
    (/\ Returned("find_critical_path")
     /\ graph # None
     /\ \E n \in NodeSet(TheGraph) : IsSourceNode(TheGraph, n)
     /\ \E n \in NodeSet(TheGraph) : IsSinkNode(TheGraph, n))
    => ret.value.path_risk_level = RiskTier(ret.value.total_duration_days)

\* a chain of exactly 365 days is of high risk
C20_Witness ==
    /\ Returned("find_critical_path")
    /\ graph # None
    /\ Len(ret.value.path_activities) >= 2
    /\ ret.value.total_duration_days = 365
    /\ ret.value.path_risk_level = HIGH

(***************************************************************************)
(* C21.  A ScheduleInput is constructed only if every predecessor and      *)
(* every successor identifier an activity declares names an activity of    *)
(* the same schedule; any other body is answered with 422 and no engine    *)
(* is built for it.                                                        *)
(***************************************************************************)
\* every identifier the activities of sched declare as a predecessor or as a
\* successor is the identifier of an activity of sched
ReferencesKnown(sched) ==
    \A i \in DOMAIN sched.activities :
        Range(sched.activities[i].predecessors)
            \cup Range(sched.activities[i].successors) \subseteq InputIds(sched)

\* C21: a request whose body declares an unknown predecessor or successor is
\* answered with 422 and has no engine built for it
C21_ReferencesChecked ==
    \A r \in DOMAIN requests :
        (requests[r].pc # "idle" /\ ~ReferencesKnown(requests[r].body[1]))
            => /\ requests[r].response = Some(Unprocessable)
               /\ requests[r].locals = None

(***************************************************************************)
(* C22.  On every graph build_graph can produce, each of the three         *)
(* analysis operations returns a value of its return type: none raises.    *)
(***************************************************************************)
RiskLevels == {LOW, MEDIUM, HIGH, CRITICAL}

\* v is a CriticalPathInfo about the graph G
IsCriticalPathInfo(G, v) ==
    /\ DOMAIN v = {"path_activities", "total_duration_days",
                   "bottleneck_activity", "path_risk_level"}
    /\ \A i \in DOMAIN v.path_activities : v.path_activities[i] \in NodeSet(G)
    /\ v.total_duration_days \in Nat
    /\ \A i \in DOMAIN v.bottleneck_activity : v.bottleneck_activity[i] \in NodeSet(G)
    /\ Len(v.bottleneck_activity) <= 1
    /\ v.path_risk_level \in RiskLevels

\* v is a list of findings
IsIssueList(v) ==
    \A i \in DOMAIN v :
        v[i].fmt \in {NoGraphText, CycleText, GroupsText, ZeroText, IsolatedText}

\* v is a list of identifiers of nodes of G
IsIdList(G, v) == \A i \in DOMAIN v : v[i] \in NodeSet(G)

AloneResults(sched) ==
    LET G == build_graph(sched)
        index == ActivityIndex(sched.activities)
    IN [engine |-> [graph |-> Some(G), activities |-> index],
        issues |-> validate_schedule_integrity(Some(G), index),
        critical_path |-> find_critical_path(Some(G), index),
        high_risk_ids |-> find_high_risk_activities(Some(G), index)]

\* the report of an analyse request shows the results alone: its critical
\* path, its findings as the key risks or after the key risks of the LLM,
\* and, unless the LLM answered, an assessment of each activity of the
\* schedule (of the first ActivityRisksMax), rated high for the high-risk ones
ReportShows(report, alone) ==
    LET nodes == alone.engine.graph[1].node
        risks == report.activity_risks
    IN /\ report.critical_path = alone.critical_path
       /\ \/ /\ report.confidence_score = Float(1, 2)
             /\ report.key_risks = IF alone.issues = <<>> THEN <<NoIssuesText>>
                                   ELSE alone.issues
             /\ report.overall_risk_level = alone.critical_path.path_risk_level
             /\ Len(risks) = IF Len(nodes) < ActivityRisksMax THEN Len(nodes)
                             ELSE ActivityRisksMax
             /\ \A k \in DOMAIN risks :
                   /\ risks[k].activity_id = nodes[k]
                   /\ risks[k].activity_name = alone.engine.activities[nodes[k]].name
                   /\ risks[k].risk_level = HIGH
                        <=> nodes[k] \in Range(alone.high_risk_ids)
          \/ /\ report.confidence_score # Float(1, 2)
             /\ \E llm \in LlmResults :
                   /\ llm # None
                   /\ report.key_risks = llm[1].key_risks \o alone.issues

\* C23: every request under way or answered holds the engine and the results
\* of its own schedule, and its response shows them
C23_RequestsIndependent ==
    \A r \in DOMAIN requests :
        LET q == requests[r]
        IN (q.pc # "idle" /\ q.locals # None) =>
              LET alone == AloneResults(q.body[1])
              IN /\ q.locals[1].engine = alone.engine
                 /\ q.endpoint = "analyse" =>
                       /\ q.locals[1].issues = alone.issues
                       /\ q.locals[1].critical_path = alone.critical_path
                       /\ q.locals[1].high_risk_ids = alone.high_risk_ids
                 /\ (q.pc = "done" /\ q.endpoint = "analyse"
                        /\ q.response[1].status = 200) =>
                       ReportShows(q.response[1].content, alone)
                 /\ (q.pc = "done" /\ q.endpoint = "validate") =>
                       /\ q.response[1].status = 200
                       /\ q.response[1].content.issues = alone.issues
                       /\ q.response[1].content.valid = (alone.issues = <<>>)

\* one request has been answered from its engine, without the LLM, while the
\* handler of a request for a schedule of other activities is at its await
C23_Witness ==
    \E r, o \in DOMAIN requests :
        /\ requests[r].pc = "done" /\ requests[r].endpoint = "analyse"
        /\ requests[r].response[1].status = 200
        /\ requests[r].response[1].content.confidence_score = Float(1, 2)
        /\ requests[o].pc = "awaiting"
        /\ requests[o].locals[1].engine.graph[1].node
              # requests[r].locals[1].engine.graph[1].node

(***************************************************************************)
(* C26. The score find_high_risk_activities ranks by is, for every node,   *)
(* 0.3 x out-degree + 0.4 x min(duration / 30, 2.0) + 0.3 x betweenness    *)
(* centrality, the last term only on a graph of fewer than 500 nodes: the  *)
(* identifiers returned are in descending order of that score, nodes of    *)
(* equal score in insertion order, and no node left out ranks before a     *)
(* node returned.                                                          *)
(***************************************************************************)
\* the nodes an edge of G leads to from u
SuccessorsOf(G, u) == {w \in NodeSet(G) : HasEdge(G, u, w)}

\* the paths of `paths` and the simple paths that extend them by edges of G
RECURSIVE PathsExtending(_, _)
PathsExtending(G, paths) ==
    LET longer == UNION { {Append(p, w) : w \in SuccessorsOf(G, p[Len(p)]) \ Range(p)}
                          : p \in paths }
    IN IF longer = {} THEN paths ELSE paths \cup PathsExtending(G, longer)

\* the simple paths that start at s
SimplePathsFrom(G, s) == PathsExtending(G, {<<s>>})

\* the paths of `paths` than which no path of `paths` to the same node is shorter
ShortestAmong(paths) ==
    {p \in paths : \A q \in paths : q[Len(q)] = p[Len(p)] => Len(p) <= Len(q)}

\* the sum of term over S
RECURSIVE FloatSumOver(_, _)
FloatSumOver(S, term) ==
    IF S = {} THEN FloatZero
    ELSE LET x == CHOOSE y \in S : TRUE
         IN FloatAdd(term[x], FloatSumOver(S \ {x}, term))

\* the betweenness centrality of the nodes, by position: over the ordered
\* pairs <<s, t>> of other nodes with a path from s to t, the share of the
\* shortest paths from s to t that pass through the node, summed and, for
\* more than two nodes, divided by the number (n - 1)(n - 2) of such pairs
ClaimedBetweenness(G) ==
    LET n == Len(G.node)
        shortest == List([s \in 1..n |-> ShortestAmong(SimplePathsFrom(G, G.node[s]))])
        far == {s \in 1..n : \E p \in shortest[s] : Len(p) > 2}
        between(s, t) == {p \in shortest[s] : p[Len(p)] = t}
        pairs(v) == {st \in far \X NodeSet(G) :
                        /\ G.node[st[1]] # v /\ st[2] # v /\ st[2] # G.node[st[1]]
                        /\ between(st[1], st[2]) # {}}
        share(v) == [st \in pairs(v) |->
                        Float(Cardinality({p \in between(st[1], st[2]) : v \in Range(p)}),
                              Cardinality(between(st[1], st[2])))]
        raw(v) == FloatSumOver(pairs(v), share(v))
    IN List([i \in 1..n |->
               IF n <= 2 THEN raw(G.node[i])
               ELSE FloatMul(raw(G.node[i]), Float(1, (n - 1) * (n - 2)))])

\* min(d / 30, 2.0): the months of d days, two for every d of 60 days or more
CappedMonths(d) == IF d >= 60 THEN Float(2, 1) ELSE Float(d, 30)

\* the claimed score of the nodes, by position
ClaimedScores(G) ==
    LET n == Len(G.node)
        centrality == ClaimedBetweenness(G)
    IN List([i \in 1..n |->
               FloatAdd(FloatAdd(FloatMul(Float(3, 10),
                                          Float(Cardinality(SuccessorsOf(G, G.node[i])), 1)),
                                 FloatMul(Float(4, 10),
                                          CappedMonths(G.attr[G.node[i]].duration))),
                        IF n < 500 THEN FloatMul(Float(3, 10), centrality[i])
                        ELSE FloatZero)])

\* position i ranks before position j: a higher score, or the same score and
\* inserted earlier
RanksBefore(score, i, j) ==
    FloatLess(score[j], score[i]) \/ (score[i] = score[j] /\ i < j)

C26_ScoreFormula ==
    (Returned("find_high_risk_activities") /\ graph # None)
    => LET score == ClaimedScores(TheGraph)
           r == List([i \in DOMAIN ret.value |-> NodePos(TheGraph, ret.value[i])])
           out == (1..Len(TheGraph.node)) \ Range(r)
       IN /\ \A i, j \in DOMAIN r : i < j => RanksBefore(score, r[i], r[j])
          /\ \A i \in DOMAIN r : \A m \in out : RanksBefore(score, r[i], m)

\* on a graph one node short of 500, of activities that last 90 days each, the
\* node returned first is the one between two others, not the first inserted
\* of the two that have a successor
C26_Witness ==
    /\ Returned("find_high_risk_activities")
    /\ graph # None
    /\ Len(TheGraph.node) = 499
    /\ TheGraph.attr[WideId(1)].duration = 90
    /\ Len(ret.value) = 99
    /\ ret.value[1] = WideId(2)
    /\ ret.value[2] = WideId(1)

(***************************************************************************)
(* C24. On a graph of more nodes than the engine's node-count limit an     *)
(* analysis operation reports a failure, which is no normal result, rather *)
(* than carrying out the analysis or leaving a part of it out; on a graph  *)
(* within the limit it returns a normal result.                            *)
(***************************************************************************)
\* the only size the engine compares a graph with
NodeCountLimit == CentralityMaxNodes

C24_LimitReported ==
    (Returned("find_high_risk_activities") /\ graph # None)
    => LET normal == "value" \in DOMAIN ret /\ IsIdList(TheGraph, ret.value)
       IN normal <=> Len(TheGraph.node) <= NodeCountLimit

(***************************************************************************)
(* C25. On an acyclic graph find_critical_path does the work of a          *)
(* dynamic program over a topological order, which compares one candidate  *)
(* per node and per edge: the number of paths whose duration the call      *)
(* computes is at most the number of nodes plus the number of edges.       *)
(***************************************************************************)
\* the next step of the loops gets a path from the generator
YieldsPath(G, fr) ==
    /\ fr.pc = "loops"
    /\ fr.walk.stack # <<>>
    /\ WalkStep(G, fr.sources[fr.si], fr.sinks[fr.ti], fr.walk).yielded # None

\* the loops run for 2^m steps from c.frame, or to their end, and c.paths
\* raised by the number of paths the generator yields on the way
RECURSIVE CountSteps(_, _, _, _)
CountSteps(G, index, c, m) ==
    IF c.frame.pc = "return" THEN c
    ELSE IF m = 0
    THEN [frame |-> LoopStep(G, index, c.frame),
          paths |-> c.paths + (IF YieldsPath(G, c.frame) THEN 1 ELSE 0)]
    ELSE LET first == CountSteps(G, index, c, m - 1)
         IN IF first.frame.pc = "return" THEN first
            ELSE CountSteps(G, index, first, m - 1)

RECURSIVE CountFrom(_, _, _, _)
CountFrom(G, index, c, m) ==
    LET after == CountSteps(G, index, c, m)
    IN IF after.frame.pc = "return" THEN after ELSE CountFrom(G, index, after, m + 1)

\* the number of paths the loops of find_critical_path get from the generator
PathsExamined(G, index) ==
    CountFrom(G, index, [frame |-> LoopEntry(G), paths |-> 0], 0).paths

C25_LinearWork ==
    (/\ Returned("find_critical_path")
     /\ graph # None
     /\ NodeSet(TheGraph) # {}
     /\ ~HasDirectedCycle(TheGraph))
    => PathsExamined(TheGraph, activities)
          <= Len(TheGraph.node) + Cardinality(EdgeSet(TheGraph))

(***************************************************************************)
(* C27. When several source-to-sink paths of an acyclic graph share the    *)
(* largest total duration, find_critical_path returns one that starts at   *)
(* the lexicographically first of the sources such paths start at.         *)
(***************************************************************************)
\* the rank of an identifier in lexicographic order; IdPool is in that order
LexRank(id) == CHOOSE i \in DOMAIN IdPool : IdPool[i] = id

\* the source-to-sink paths of the largest total duration
LongestPaths(G) ==
    LET paths == SourceToSinkPaths(G)
        best == MaxOf({DurationAlong(G, p) : p \in paths})
    IN {p \in paths : DurationAlong(G, p) = best}

C27_LexicographicFirst ==
    (/\ Returned("find_critical_path")
     /\ graph # None
     /\ NodeSet(TheGraph) # {}
     /\ ~HasDirectedCycle(TheGraph)
     /\ ret.value.total_duration_days > 0)
    => /\ ret.value.path_activities \in LongestPaths(TheGraph)
       /\ \A p \in LongestPaths(TheGraph) :
             LexRank(ret.value.path_activities[1]) <= LexRank(p[1])

(***************************************************************************)
(* C28. Whatever build_graph calls an engine has seen, after               *)
(* build_graph(s) the nodes of the graph are the keys of the activity      *)
(* index and the identifiers of s, the edges are the references s lists    *)
(* among its activities, the index and the node attributes hold records of *)
(* s, and every analysis result is the one a fresh engine gives for s.     *)
(***************************************************************************)
\* the pairs (p, a) with a an activity of sched that lists the activity p of sched
ListedEdges(sched) ==
    {e \in InputIds(sched) \X InputIds(sched) :
        \E i \in DOMAIN sched.activities :
            /\ sched.activities[i].id = e[2]
            /\ e[1] \in Range(sched.activities[i].predecessors)}

\* what op returns on a fresh engine after build_graph(sched)
FreshResult(op, sched) ==
    LET G == build_graph(sched)
        index == ActivityIndex(sched.activities)
    IN CASE op = "find_critical_path" -> find_critical_path(Some(G), index)
         [] op = "find_high_risk_activities" -> find_high_risk_activities(Some(G), index)
         [] op = "validate_schedule_integrity" -> validate_schedule_integrity(Some(G), index)

C28_BuildReplaces ==
    graph # None
    => LET s == schedule[1]
       IN /\ NodeSet(TheGraph) = DOMAIN activities
          /\ NodeSet(TheGraph) = InputIds(s)
          /\ EdgeSet(TheGraph) = ListedEdges(s)
          /\ \A id \in DOMAIN activities :
                /\ activities[id] \in Range(s.activities)
                /\ TheGraph.attr[id].duration = activities[id].duration_days
          /\ \A op \in AnalysisOps :
                Returned(op) => ret.value = FreshResult(op, s)

\* an engine first built on two records has been rebuilt on the single
\* activity B, which lists "A"; the graph has B as its only node and no
\* edge, and validate_schedule_integrity finds B isolated
C28_Witness ==
    /\ graph # None
    /\ Len(schedule[1].activities) = 1
    /\ schedule[1].activities[1].id = "B"
    /\ schedule[1].activities[1].predecessors = <<"A">>
    /\ TheGraph.node = <<"B">>
    /\ EdgeSet(TheGraph) = {}
    /\ DOMAIN activities = {"B"}
    /\ Returned("validate_schedule_integrity")
    /\ \E i \in DOMAIN ret.value : ret.value[i] = Issue(IsolatedText, "B")

(***************************************************************************)
(* C29. On an engine on which build_graph has not been called, and on an   *)
(* engine whose built graph has no nodes, validate_schedule_integrity      *)
(* returns the single entry 'No schedule graph built', find_critical_path  *)
(* an empty path with total duration 0, no bottleneck and the risk level   *)
(* low, and find_high_risk_activities an empty list.                       *)
(***************************************************************************)
\* build_graph has not been called, or was last called on no activities
NothingBuilt == graph = None \/ NodeSet(TheGraph) = {}

C29_NothingBuilt ==
    NothingBuilt
    => /\ Returned("validate_schedule_integrity")
          => ret.value = <<Issue("No schedule graph built", "")>>
       /\ Returned("find_critical_path")
          => ret.value = CriticalPathInfo(<<>>, 0, None, LOW)
       /\ Returned("find_high_risk_activities")
          => ret.value = <<>>

\* validate_schedule_integrity has returned on an engine never built
C29_Witness ==
    /\ graph = None
    /\ schedule = None
    /\ activities = <<>>
    /\ Returned("validate_schedule_integrity")
    /\ Len(ret.value) = 1

=============================================================================
